---- MODULE Spec2Model ----
(***************************************************************************)
(* Model of bento's classification and transaction-synthesis pipeline:     *)
(* the rule classifier (classifier/rule/rule_classify.py) and the seven    *)
(* statement importers (one module per source under importers).           *)
(*                                                                         *)
(* Text is modelled as a sequence of tokens.  A token is one character of  *)
(* the text, or one of the multi-character markers the code searches for   *)
(* (the app names, the fee label, the transfer-note prefix), kept as one   *)
(* token.  Amounts are exact decimals scaled to integers.                  *)
(***************************************************************************)
EXTENDS Integers, Sequences, FiniteSets, TLC

VARIABLES
    rule_file,       \* parsed yaml of the rules file: sequence of rule entries
    rules,           \* RuleAccountClassifier.rules
    cstate,          \* classifier object: "new", "loaded", "load_error"
    cin,             \* arguments of the last classify call
    cresult,         \* outcome of the last classify call
    importer,        \* which importer is running extract
    use_classifier,  \* Importer.classifier is not None
    ignore_apps,     \* Importer.ignore_apps
    file_name,       \* file.name, a path as a sequence of components
    consumed,        \* records of the statement already iterated by extract
    entries,         \* extract's local list `entries`
    cached_entries,  \* boc_credit extract's local dict `cached_entries`
    entries_alt,     \* `entries` of the same extract run with ignore_apps flipped
    cached_alt,      \* `cached_entries` of that second run
    last,            \* what the last _parse_transaction call did
    pc,              \* position of extract: "idle", "loop", "done"
    runs             \* the extract calls of one importer object on two files

vars == <<rule_file, rules, cstate, cin, cresult, importer, use_classifier,
          ignore_apps, file_name, consumed, entries, cached_entries,
          entries_alt, cached_alt, last, pc, runs>>

None == "None"

(***************************************************************************)
(* Bounds                                                                  *)
(***************************************************************************)
MaxRules == 2
MaxRecords == 3

(***************************************************************************)
(* Text helpers                                                            *)
(***************************************************************************)
LowerTok(c) ==
    IF c = "A" THEN "a" ELSE IF c = "B" THEN "b" ELSE IF c = "H" THEN "h" ELSE c

\* the text left in the case it was written in
Lower_as_written(s) == s

\* str.lower()
Lower(s) == [i \in 1..Len(s) |-> LowerTok(s[i])]

\* `target in value`
Contains(value, target) ==
    \E i \in 0..(Len(value) - Len(target)) :
        SubSeq(value, i + 1, i + Len(target)) = target

StartsWith(value, target) ==
    /\ Len(target) <= Len(value)
    /\ SubSeq(value, 1, Len(target)) = target

EndsWith(value, target) ==
    /\ Len(target) <= Len(value)
    /\ SubSeq(value, Len(value) - Len(target) + 1, Len(value)) = target

\* re.search(pattern, value) for patterns built of literal tokens and the
\* wildcard "." (any one token); search succeeds at any offset.
ReSearch(pattern, value) ==
    \E i \in 0..(Len(value) - Len(pattern)) :
        \A k \in 1..Len(pattern) :
            pattern[k] = "." \/ pattern[k] = value[i + k]

(***************************************************************************)
(* Predicates (rule_classify.py)                                           *)
(***************************************************************************)
PredicateNames == {"equals", "contains", "starts_with", "ends_with", "matches"}

AttributeError == "AttributeError"

\* Predicates.get_predicate: getattr(Predicates, name)
get_predicate(name) == IF name \in PredicateNames THEN name ELSE AttributeError

\* predicate_func(value, target)
predicate_func(func, value, target) ==
    CASE func = "equals"      -> value = target
      [] func = "contains"    -> Contains(value, target)
      [] func = "starts_with" -> StartsWith(value, target)
      [] func = "ends_with"   -> EndsWith(value, target)
      [] func = "matches"     -> ReSearch(target, value)

\* the inner loop succeeding as soon as one predicate of the block holds
conditions_hold_any(conditions, value, k) ==
    IF \E j \in k..Len(conditions) : get_predicate(conditions[j][1]) = AttributeError
    THEN "raise"
    ELSE IF conditions = <<>> THEN "true"
    ELSE IF \E j \in k..Len(conditions) :
                predicate_func(conditions[j][1], Lower(value), Lower(conditions[j][2]))
         THEN "true" ELSE "false"

\* The inner `and` loop of AccountRule.matches over one field's conditions,
\* from the k-th predicate on: "true", "false" or "raise".
RECURSIVE conditions_hold(_, _, _)
conditions_hold(conditions, value, k) ==
    IF k > Len(conditions) THEN "true"
    ELSE LET predicate_name == conditions[k][1]
             target == conditions[k][2]
             func == get_predicate(predicate_name)
         IN  IF func = AttributeError THEN "raise"
             ELSE IF ~predicate_func(func, Lower(value), Lower(target))
                  THEN "false"
                  ELSE conditions_hold(conditions, value, k + 1)

\* a field of any other name read as the payee
field_value_any(field, payee, narration) ==
    IF field = "narration" THEN narration ELSE payee

\* payee if field == "payee" else narration if field == "narration" else ""
field_value(field, payee, narration) ==
    IF field = "payee" THEN payee
    ELSE IF field = "narration" THEN narration ELSE <<>>

\* AccountRule.matches without the `if not value: continue`
RECURSIVE rule_matches_from_unskipped(_, _, _, _)
rule_matches_from_unskipped(condition, payee, narration, f) ==
    IF f > Len(condition) THEN "false"
    ELSE LET succ == conditions_hold(condition[f][2],
                        field_value(condition[f][1], payee, narration), 1)
         IN  IF succ = "raise" THEN "raise"
             ELSE IF succ = "true" THEN "true"
             ELSE rule_matches_from_unskipped(condition, payee, narration, f + 1)

\* AccountRule.matches, from the f-th condition field on.
RECURSIVE rule_matches_from(_, _, _, _)
rule_matches_from(condition, payee, narration, f) ==
    IF f > Len(condition) THEN "false"
    ELSE LET field == condition[f][1]
             conditions == condition[f][2]
             value == field_value(field, payee, narration)
         IN  IF value = <<>>
             THEN rule_matches_from(condition, payee, narration, f + 1)
             ELSE LET succ == conditions_hold(conditions, value, 1)
                  IN  IF succ = "raise" THEN "raise"
                      ELSE IF succ = "true" THEN "true"
                      ELSE rule_matches_from(condition, payee, narration, f + 1)

\* a rule without condition fields taken as matching everything
AccountRule_matches_vacuous(rule, payee, narration) ==
    IF rule.condition = <<>> THEN "true"
    ELSE rule_matches_from(rule.condition, payee, narration, 1)

AccountRule_matches(rule, payee, narration) ==
    rule_matches_from(rule.condition, payee, narration, 1)

Returned(matched, account) ==
    [kind |-> "return", matched |-> matched, account |-> account]

Raised == [kind |-> "raise", matched |-> FALSE, account |-> None]

\* classify_from with the loop keeping the last matching rule instead of
\* returning at the first one.
RECURSIVE classify_from_last(_, _, _, _)
classify_from_last(rs, payee, narration, i) ==
    IF i > Len(rs) THEN Returned(FALSE, None)
    ELSE LET m == AccountRule_matches(rs[i], payee, narration)
             rest == classify_from_last(rs, payee, narration, i + 1)
         IN  IF m = "raise" THEN Raised
             ELSE IF rest.kind = "return" /\ rest.matched THEN rest
             ELSE IF m = "true" THEN Returned(TRUE, rs[i].prediction_account)
             ELSE rest

\* RuleAccountClassifier.classify, from the i-th rule on.
RECURSIVE classify_from(_, _, _, _)
classify_from(rs, payee, narration, i) ==
    IF i > Len(rs) THEN Returned(FALSE, None)
    ELSE LET m == AccountRule_matches(rs[i], payee, narration)
         IN  IF m = "raise" THEN Raised
             ELSE IF m = "true" THEN Returned(TRUE, rs[i].prediction_account)
             ELSE classify_from(rs, payee, narration, i + 1)

classify(rs, payee, narration) == classify_from(rs, payee, narration, 1)

\* RuleAccountClassifier._load_rules: a KeyError when an entry lacks one of
\* the three keys, else one AccountRule per entry, in file order.
EntryKeys == {"name", "condition", "prediction_account"}

load_ok(config) == \A i \in 1..Len(config) : EntryKeys \subseteq DOMAIN config[i]

load_rules(config) ==
    [i \in 1..Len(config) |->
        [name |-> config[i].name,
         condition |-> config[i].condition,
         prediction_account |-> config[i].prediction_account]]

(***************************************************************************)
(* Rule files the classifier is constructed from.  A condition is the      *)
(* ordered yaml mapping field -> (ordered mapping predicate -> target),    *)
(* written as a sequence of <<field, <<predicate, target>>, ...>> pairs.   *)
(***************************************************************************)
P(name, target) == <<name, target>>

F(field, conditions) == <<field, conditions>>

RuleConditions ==
    { <<>>,
      <<F("payee", <<>>)>>,
      <<F("payee", <<P("equals", <<"a">>)>>)>>,
      <<F("payee", <<P("contains", <<"A">>)>>)>>,
      <<F("payee", <<P("contains", <<>>)>>)>>,
      <<F("payee", <<P("starts_with", <<"a">>)>>)>>,
      <<F("payee", <<P("ends_with", <<"a">>)>>)>>,
      <<F("payee", <<P("matches", <<".", "b">>)>>)>>,
      <<F("payee", <<P("fuzzy", <<"a">>)>>)>>,
      <<F("payee", <<P("contains", <<"a">>), P("ends_with", <<"b">>)>>)>>,
      <<F("payee", <<P("equals", <<"b">>), P("fuzzy", <<"a">>)>>)>>,
      <<F("narration", <<P("contains", <<"b">>)>>)>>,
      <<F("narration", <<P("fuzzy", <<"b">>)>>)>>,
      <<F("memo", <<P("contains", <<>>)>>)>>,
      <<F("payee", <<P("equals", <<"a">>)>>),
        F("narration", <<P("starts_with", <<"b">>)>>)>>,
      <<F("narration", <<P("equals", <<"a">>)>>),
        F("payee", <<P("ends_with", <<"b">>)>>)>>,
      <<F("payee", <<P("contains", <<"a">>)>>),
        F("narration", <<P("fuzzy", <<"a">>)>>)>>,
      <<F("payee", <<P("equals", <<"a">>)>>), F("narration", <<>>)>> }

RuleAccount(i) == <<"Expenses:Rule", ToString(i)>>

RuleEntry(cond, i) ==
    [name |-> ToString(i), condition |-> cond,
     prediction_account |-> RuleAccount(i)]

\* an entry of the yaml file without its prediction_account key
BrokenEntry(i) == [name |-> ToString(i), condition |-> <<>>]

RuleFilesOfLen(n) ==
    { [i \in 1..n |-> RuleEntry(cs[i], i)] : cs \in [1..n -> RuleConditions] }

RuleFiles ==
    UNION { RuleFilesOfLen(n) : n \in 0..MaxRules }
        \cup { <<BrokenEntry(1)>>, <<RuleEntry(<<>>, 1), BrokenEntry(2)>> }

\* payee and narration arguments of classify
ClassifyTexts == { <<>>, <<"a">>, <<"A", "b">>, <<"b", "A">> }

NoResult == [kind |-> "none", matched |-> FALSE, account |-> None]

(***************************************************************************)
(* The classifier as a state machine: construction, then classify calls.   *)
(***************************************************************************)
\* the statement files handed to extract
Files == {1, 2}

\* an extract call that has not started: no locals yet
IdleRun == [pc |-> "idle", fname |-> <<>>, consumed |-> <<>>,
            entries |-> <<>>, cached |-> <<>>]

IdleRuns == [f \in Files |-> IdleRun]

ImporterIdle ==
    /\ importer = None
    /\ use_classifier = FALSE
    /\ ignore_apps = FALSE
    /\ file_name = <<>>
    /\ consumed = <<>>
    /\ entries = <<>>
    /\ cached_entries = <<>>
    /\ entries_alt = <<>>
    /\ cached_alt = <<>>
    /\ last = None
    /\ pc = "idle"
    /\ runs = IdleRuns

ImporterVars == <<importer, use_classifier, ignore_apps, file_name, consumed,
                  entries, cached_entries, entries_alt, cached_alt, last, pc, runs>>

InitClassify ==
    /\ rule_file \in RuleFiles
    /\ rules = <<>>
    /\ cstate = "new"
    /\ cin = <<>>
    /\ cresult = NoResult
    /\ ImporterIdle

\* RuleAccountClassifier.__init__
Construct ==
    /\ cstate = "new"
    /\ IF load_ok(rule_file)
       THEN rules' = load_rules(rule_file) /\ cstate' = "loaded"
       ELSE rules' = rules /\ cstate' = "load_error"
    /\ UNCHANGED <<rule_file, cin, cresult>>
    /\ UNCHANGED ImporterVars

\* RuleAccountClassifier.classify(payee, narration)
Classify ==
    /\ cstate = "loaded"
    /\ pc = "idle"
    /\ \E payee \in ClassifyTexts, narration \in ClassifyTexts :
        /\ cin' = <<payee, narration>>
        /\ cresult' = classify(rules, payee, narration)
    /\ UNCHANGED <<rule_file, rules, cstate>>
    /\ UNCHANGED ImporterVars

NextClassify == Construct \/ Classify

SpecClassify == InitClassify /\ [][NextClassify]_vars

(***************************************************************************)
(* Importers: configuration (config.py) and shared shapes                  *)
(***************************************************************************)
duplicate_meta == "__duplicate__"

default_expense_account == <<"Expenses:Uncategorized">>
default_income_account == <<"Income:Uncategorized">>

\* f"{account}:{card_last_four}"
CardAccount(account, card_last_four) == <<account, ":", card_last_four>>

\* Amount(number, currency); a posting without units has units = <<>>
Amount(number, currency) == <<number, currency>>

NoUnits == <<>>

Posting(account, units) == [account |-> account, units |-> units]

\* os.path.basename
basename(path) == path[Len(path)]

\* the metadata numbered by a count of the records parsed so far by the
\* process, whichever file they are from
new_metadata_counting(filename, lineno, kv) ==
    kv @@ [filename |-> filename,
           lineno |-> Len(runs[1].consumed) + Len(runs[2].consumed)]

\* data.new_metadata(filename, lineno, kvlist)
new_metadata(filename, lineno, kv) ==
    kv @@ [filename |-> filename, lineno |-> lineno]

Transaction(meta, date, flag, payee, narration, postings) ==
    [meta |-> meta, date |-> date, flag |-> flag, payee |-> payee,
     narration |-> narration, tags |-> {}, links |-> {}, postings |-> postings]

\* date.strftime("%Y-%m-%d") of a date <<year, month, day>>
strftime_ymd(d) == <<d[1], "-", d[2], "-", d[3]>>

\* time.strftime("%H:%M:%S") of a time <<hour, minute, second>>
strftime_hms(t) == <<t[1], ":", t[2], ":", t[3]>>

IsSpace(c) == c = " "

\* str.strip()
RECURSIVE strip(_)
strip(s) ==
    IF s = <<>> THEN s
    ELSE IF IsSpace(s[1]) THEN strip(Tail(s))
    ELSE IF IsSpace(s[Len(s)]) THEN strip(SubSeq(s, 1, Len(s) - 1))
    ELSE s

\* all(app in text for app in apps)
all_apps_in(apps, text) == \A app \in apps : Contains(text, app)

\* any(app in text for app in apps)
any_app_in(apps, text) == \E app \in apps : Contains(text, app)

\* the marking replacing the metadata instead of adding a key to it
mark_duplicate_replacing(ig, apps, text, meta) ==
    IF ig /\ any_app_in(apps, text) THEN (duplicate_meta :> TRUE) ELSE meta

\* if self.ignore_apps: if any(app in text for app in apps):
\*     meta[settings.ledger.duplicate_meta] = True
mark_duplicate(ig, apps, text, meta) ==
    IF ig /\ any_app_in(apps, text) THEN (duplicate_meta :> TRUE) @@ meta ELSE meta

\* create_simple_posting called without a number
create_simple_posting_no_number(account, number, currency) ==
    Posting(account, NoUnits)

\* data.create_simple_posting(entry, account, number, currency): the posting
\* it appends to entry.postings
create_simple_posting(account, number, currency) ==
    Posting(account, Amount(number, currency))

\* self.classifier(payee, narration) when a classifier is configured: the
\* bound classify of a RuleAccountClassifier built from rule_file
call_classifier(payee, narration) ==
    IF use_classifier THEN classify(rules, payee, narration) ELSE NoResult

\* `reliable` after the optional classifier call
Reliable(cls) == cls.kind = "return" /\ cls.matched

\* what one _parse_transaction call did: op is "entry" (a transaction was
\* returned), "hit" (a posting was appended to a cached transaction),
\* "skip" (an early return None) or "raise" (the except branch)
Outcome(op, cls, key, entry, posting) ==
    [op |-> op, cls |-> cls, key |-> key, entry |-> entry, posting |-> posting]

NoEntry == <<>>

(***************************************************************************)
(* boc_credit                                                              *)
(***************************************************************************)
boc_credit_account == "Liabilities:Credit:BOC"
boc_credit_asset_account == <<"Assets:Uncategorized">>
boc_credit_apps == { <<"wechat">> }

\* re.search(r"(.*)\[(.*?)\]", description): the greedy first group ends at
\* the last "[" that is followed by a "]", the lazy second group at the
\* first "]" after it.  <<>> when there is no match, else <<i, j>>.
bracket_match(description) ==
    LET opens == { i \in 1..Len(description) :
                     /\ description[i] = "["
                     /\ \E j \in (i + 1)..Len(description) : description[j] = "]" }
    IN  IF opens = {} THEN <<>>
        ELSE LET i == CHOOSE x \in opens : \A y \in opens : y <= x
                 closes == { j \in (i + 1)..Len(description) : description[j] = "]" }
                 j == CHOOSE x \in closes : \A y \in closes : x <= y
             IN  <<i, j>>

boc_credit_payee(description) ==
    LET m == bracket_match(description)
    IN  IF m # <<>> THEN strip(SubSeq(description, 1, m[1] - 1)) ELSE description

boc_credit_narration(description) ==
    LET m == bracket_match(description)
    IN  IF m # <<>> THEN strip(SubSeq(description, m[1] + 1, m[2] - 1)) ELSE <<>>

\* the key of cached_entries
boc_credit_key(record) ==
    <<record.posted_date, record.card_last_four, boc_credit_payee(record.description)>>

\* boc_credit Importer._parse_transaction(file_name, record, cached_entries)
\* with self.ignore_apps = ig; cached is the set of keys of cached_entries.
boc_credit_parse_transaction(ig, fname, record, cached) ==
    LET transaction_date == record.posted_date
        card_last_four == record.card_last_four
        payee == boc_credit_payee(record.description)
        narration == boc_credit_narration(record.description)
        is_expense == record.is_expense
        cls == call_classifier(payee, narration)
        reliable == Reliable(cls)
        key == <<transaction_date, card_last_four, payee>>
        source == CardAccount(boc_credit_account, card_last_four)
        postings ==
            IF is_expense
            THEN <<Posting(source, Amount(0 - record.amount, record.currency)),
                   Posting(IF reliable THEN cls.account ELSE default_expense_account,
                           NoUnits)>>
            ELSE <<Posting(source, Amount(record.amount, record.currency)),
                   Posting(IF reliable THEN cls.account ELSE boc_credit_asset_account,
                           NoUnits)>>
        meta0 == new_metadata(basename(fname), 0,
                    [transaction_date |-> strftime_ymd(record.transaction_date)])
        meta == mark_duplicate(ig, boc_credit_apps, payee, meta0)
    IN  IF cls.kind = "raise" THEN Outcome("raise", cls, key, NoEntry, <<>>)
        ELSE IF key \in cached
        THEN Outcome("hit", cls, key, NoEntry,
                <<create_simple_posting(source,
                    IF is_expense THEN 0 - record.amount ELSE record.amount,
                    record.currency)>>)
        ELSE Outcome("entry", cls, key,
                <<Transaction(meta, transaction_date,
                              IF reliable THEN "*" ELSE "!",
                              payee, narration, postings)>>, <<>>)

(***************************************************************************)
(* The two-posting body shared in shape by boc, cmb, cmb_credit,           *)
(* citic_credit and alipay: an outflow leaves the source posting implicit  *)
(* and puts +amount on the counter account, an inflow puts +amount on the  *)
(* source and leaves the counter posting implicit.                         *)
(***************************************************************************)
\* the two postings with the counter account's posting put first
two_postings_counter_first(is_expense, source, amount, cls, expense_default, income_default) ==
    IF is_expense
    THEN <<Posting(IF Reliable(cls) THEN cls.account ELSE expense_default,
                   Amount(amount, "CNY")),
           Posting(source, NoUnits)>>
    ELSE <<Posting(IF Reliable(cls) THEN cls.account ELSE income_default,
                   NoUnits),
           Posting(source, Amount(amount, "CNY"))>>

two_postings(is_expense, source, amount, cls, expense_default, income_default) ==
    IF is_expense
    THEN <<Posting(source, NoUnits),
           Posting(IF Reliable(cls) THEN cls.account ELSE expense_default,
                   Amount(amount, "CNY"))>>
    ELSE <<Posting(source, Amount(amount, "CNY")),
           Posting(IF Reliable(cls) THEN cls.account ELSE income_default,
                   NoUnits)>>

flag_of(cls) == IF Reliable(cls) THEN "*" ELSE "!"

(***************************************************************************)
(* boc                                                                     *)
(***************************************************************************)
boc_account == "Assets:BOC"
boc_apps == { <<"wechat">>, <<"alipay">> }

\* boc Importer._parse_transaction(file_name, card_last_four, record)
boc_parse_transaction(ig, fname, card_last_four, record) ==
    LET payee == record.counterparty_account_name \o <<" ">>
                    \o record.counterparty_card_number
        narration == record.transaction_name \o <<" ">> \o record.transaction_channel
        cls == call_classifier(payee, narration)
        postings == two_postings(record.is_expense,
                        CardAccount(boc_account, card_last_four), record.amount,
                        cls, default_expense_account, default_income_account)
        meta0 == new_metadata(basename(fname), 0,
                    [time |-> strftime_hms(record.transaction_time)])
        meta == mark_duplicate(ig, boc_apps, payee, meta0)
    IN  IF record.currency # "RMB" THEN Outcome("skip", NoResult, <<>>, NoEntry, <<>>)
        ELSE IF cls.kind = "raise" THEN Outcome("raise", cls, <<>>, NoEntry, <<>>)
        ELSE Outcome("entry", cls, <<>>,
                <<Transaction(meta, record.transaction_date, flag_of(cls),
                              payee, narration, postings)>>, <<>>)

(***************************************************************************)
(* cmb                                                                     *)
(***************************************************************************)
cmb_account == "Assets:CMB:6066"
cmb_apps == { <<"cft", "-">> }

\* cmb Importer._parse_transaction(file_name, record)
cmb_parse_transaction(ig, fname, record) ==
    LET payee == record.transaction_type
        narration == record.transaction_note
        cls == call_classifier(payee, narration)
        postings == two_postings(record.is_expense,
                        CardAccount(cmb_account, record.card_last_four),
                        record.amount, cls,
                        default_expense_account, default_income_account)
        meta0 == new_metadata(basename(fname), 0,
                    [time |-> strftime_hms(record.transaction_time)])
        meta == mark_duplicate(ig, cmb_apps, narration, meta0)
    IN  IF cls.kind = "raise" THEN Outcome("raise", cls, <<>>, NoEntry, <<>>)
        ELSE Outcome("entry", cls, <<>>,
                <<Transaction(meta, record.transaction_date, flag_of(cls),
                              payee, narration, postings)>>, <<>>)

(***************************************************************************)
(* cmb_credit and citic_credit                                             *)
(***************************************************************************)
cmb_credit_account == "Liabilities:Credit:CMB"
cmb_credit_asset_account == <<"Assets:Uncategorized">>
cmb_credit_apps == { <<"wechat">>, <<"alipay">> }

\* index of the first occurrence of token sep in s, 0 when absent
first_index(s, sep) ==
    IF \E i \in 1..Len(s) : s[i] = sep
    THEN CHOOSE i \in 1..Len(s) : s[i] = sep /\ \A j \in 1..(i - 1) : s[j] # sep
    ELSE 0

\* payee, narration = description.split(sep, 1) when sep is in description
split_payee(description, sep) ==
    IF first_index(description, sep) = 0 THEN description
    ELSE SubSeq(description, 1, first_index(description, sep) - 1)

split_narration(description, sep) ==
    IF first_index(description, sep) = 0 THEN <<>>
    ELSE SubSeq(description, first_index(description, sep) + 1, Len(description))

\* record.transaction_date if record.transaction_date else record.posted_date
date_or_posted(record) ==
    IF record.transaction_date # <<>> THEN record.transaction_date
    ELSE record.posted_date

\* cmb_credit Importer._parse_transaction(file_name, record)
cmb_credit_parse_transaction(ig, fname, record) ==
    LET payee == split_payee(record.transaction_description, "-")
        narration == split_narration(record.transaction_description, "-")
        is_expense == record.transaction_type = "consume"
        cls == call_classifier(payee, narration)
        postings == two_postings(is_expense,
                        CardAccount(cmb_credit_account, record.card_last_four),
                        record.amount, cls,
                        default_expense_account, cmb_credit_asset_account)
        meta0 == new_metadata(basename(fname), 0, <<>>)
        meta1 == mark_duplicate(ig, cmb_credit_apps, payee, meta0)
        meta == IF record.transaction_type = "repay"
                THEN (duplicate_meta :> TRUE) @@ meta1 ELSE meta1
    IN  IF cls.kind = "raise" THEN Outcome("raise", cls, <<>>, NoEntry, <<>>)
        ELSE Outcome("entry", cls, <<>>,
                <<Transaction(meta, date_or_posted(record), flag_of(cls),
                              payee, narration, postings)>>, <<>>)

citic_credit_account == "Liabilities:Credit:Citic"
citic_credit_asset_account == <<"Assets:Uncategorized">>
citic_credit_apps == { <<"cft">>, <<"alipay">> }

\* citic_credit Importer._parse_transaction(file_name, record); the
\* separator is the full-width dash, token "fw-"
citic_credit_parse_transaction(ig, fname, record) ==
    LET payee == split_payee(record.transaction_description, "fw-")
        narration == split_narration(record.transaction_description, "fw-")
        is_expense == record.positive_amount
        cls == call_classifier(payee, narration)
        postings == two_postings(is_expense,
                        CardAccount(citic_credit_account, record.card_last_four),
                        record.amount, cls,
                        default_expense_account, citic_credit_asset_account)
        meta0 == new_metadata(basename(fname), 0, <<>>)
        meta == mark_duplicate(ig, citic_credit_apps, payee, meta0)
    IN  IF cls.kind = "raise" THEN Outcome("raise", cls, <<>>, NoEntry, <<>>)
        ELSE Outcome("entry", cls, <<>>,
                <<Transaction(meta, date_or_posted(record), flag_of(cls),
                              payee, narration, postings)>>, <<>>)

(***************************************************************************)
(* wechat and alipay                                                       *)
(***************************************************************************)
wechat_account == <<"Liabilities:Assets:WeChat">>
wechat_fee_account == <<"Expenses:Fee">>
wechat_income_account == <<"Income:RedPacket">>
alipay_account == <<"Assets:Alipay">>
alipay_income_account == <<"Income:RedPacket">>

\* self.additional_accounts: payment method -> account
additional_accounts == (<<"bank">> :> <<"Assets:Bank">>)

\* self.additional_accounts.get(payment_method, self.account)
get_asset_account(payment_method, account) ==
    IF payment_method \in DOMAIN additional_accounts
    THEN additional_accounts[payment_method] ELSE account

comment_prefix == "prefix"

\* datetime.date() and datetime.time() of a datetime <<date, time>>
date_of(dt) == dt[1]

time_of(dt) == dt[2]

\* narration.replace(self.comment_prefix, "")
RECURSIVE remove_token(_, _)
remove_token(s, tok) ==
    IF s = <<>> THEN s
    ELSE IF s[1] = tok THEN remove_token(Tail(s), tok)
    ELSE <<s[1]>> \o remove_token(Tail(s), tok)

Digits == {"0", "1", "2", "3", "4", "5", "6", "7", "8", "9"}

DigitVal(c) ==
    CASE c = "0" -> 0 [] c = "1" -> 1 [] c = "2" -> 2 [] c = "3" -> 3
      [] c = "4" -> 4 [] c = "5" -> 5 [] c = "6" -> 6 [] c = "7" -> 7
      [] c = "8" -> 8 [] c = "9" -> 9

\* last index of the run of digits of s that starts at index i (i - 1 when
\* s[i] is not a digit)
RECURSIVE digits_end(_, _)
digits_end(s, i) ==
    IF i <= Len(s) /\ s[i] \in Digits THEN digits_end(s, i + 1) ELSE i - 1

\* int() of the digits s[i..j]
RECURSIVE int_of(_, _, _)
int_of(s, i, j) ==
    IF j < i THEN 0 ELSE int_of(s, i, j - 1) * 10 + DigitVal(s[j])

\* Decimal of "<digits>[.<digits>]" in hundredths, for at most two decimals
decimal_of(s, i) ==
    LET j == digits_end(s, i)
        whole == int_of(s, i, j) * 100
    IN  IF j + 1 <= Len(s) /\ s[j + 1] = "."
        THEN LET k == digits_end(s, j + 2)
             IN  IF k = j + 1 THEN whole
                 ELSE IF k = j + 2 THEN whole + DigitVal(s[k]) * 10
                 ELSE whole + DigitVal(s[j + 2]) * 10 + DigitVal(s[j + 3])
        ELSE whole

\* the fee left at Decimal("0") whatever the note says
wechat_fee_never_parsed(note) == 0

\* the withdrawal fee of wechat: Decimal("0") unless the note holds the fee
\* label and re.search(fee label, yen sign, (\d+\.?\d*)) matches
wechat_fee(note) ==
    LET starts == { i \in 1..(Len(note) - 2) :
                      /\ note[i] = "fee"
                      /\ note[i + 1] = "yen"
                      /\ note[i + 2] \in Digits }
    IN  IF note # <<>> /\ Contains(note, <<"fee">>) /\ starts # {}
        THEN decimal_of(note, (CHOOSE i \in starts : \A j \in starts : i <= j) + 2)
        ELSE 0

\* wechat Importer._parse_transaction(file_name, record)
wechat_parse_transaction(fname, record) ==
    LET transaction_type == record.transaction_category
        payee == record.transaction_counterparty
        narration == IF Contains(record.product, <<comment_prefix>>)
                     THEN remove_token(record.product, comment_prefix)
                     ELSE record.product
        income_expense == record.income_expense
        payment_method == record.payment_method
        kv0 == [transaction_type |-> transaction_type,
                payment_method |-> payment_method,
                time |-> strftime_hms(time_of(record.transaction_time))]
        kv1 == IF record.note # <<>> /\ record.note # <<"/">>
               THEN ("note" :> strip(record.note)) @@ kv0 ELSE kv0
        kv2 == IF record.wechat_trade_no # <<>>
               THEN ("wechat_trade_no" :> strip(record.wechat_trade_no)) @@ kv1
               ELSE kv1
        meta_kv == IF record.out_trade_no # <<>> /\ record.out_trade_no # <<"/">>
                   THEN ("out_trade_no" :> strip(record.out_trade_no)) @@ kv2
                   ELSE kv2
        asset_account == get_asset_account(payment_method, wechat_account)
        cls == call_classifier(payee, narration)
        reliable == Reliable(cls)
        postings ==
            IF income_expense = "income"
            THEN <<Posting(asset_account, Amount(record.amount, "CNY")),
                   Posting(wechat_income_account, NoUnits)>>
            ELSE IF transaction_type = <<"withdraw">>
            THEN <<Posting(asset_account, Amount(0 - record.amount, "CNY")),
                   Posting(get_asset_account(payment_method, wechat_account), NoUnits),
                   Posting(wechat_fee_account, Amount(wechat_fee(record.note), "CNY"))>>
            ELSE <<Posting(asset_account, NoUnits),
                   Posting(IF reliable THEN cls.account ELSE default_expense_account,
                           Amount(record.amount, "CNY"))>>
        flag == IF income_expense = "income" \/ transaction_type = <<"withdraw">> \/ reliable
                THEN "*" ELSE "!"
    IN  IF cls.kind = "raise" THEN Outcome("raise", cls, <<>>, NoEntry, <<>>)
        ELSE Outcome("entry", cls, <<>>,
                <<Transaction(new_metadata(basename(fname), 0, meta_kv),
                              date_of(record.transaction_time), flag,
                              payee, narration, postings)>>, <<>>)

\* alipay Importer._parse_transaction(file_name, row)
alipay_parse_transaction(fname, row) ==
    LET transaction_type == row.transaction_category
        payee == row.transaction_counterparty
        narration == row.transaction_category \o <<" ">> \o row.product_description
        is_expense == row.income_expense = "expense"
        payment_method == row.payment_method
        kv0 == [transaction_type |-> transaction_type,
                payment_method |-> payment_method]
        kv1 == IF row.transaction_order_number # <<>>
               THEN ("alipay_trade_no" :> strip(row.transaction_order_number)) @@ kv0
               ELSE kv0
        meta_kv == IF row.merchant_order_number # <<>>
                      /\ row.merchant_order_number # <<"/">>
                   THEN ("out_trade_no" :> strip(row.merchant_order_number)) @@ kv1
                   ELSE kv1
        asset_account == get_asset_account(payment_method, alipay_account)
        cls == call_classifier(payee, narration)
        postings == two_postings(is_expense, asset_account, row.amount, cls,
                        default_expense_account, alipay_income_account)
    IN  IF payee = <<"yuebao">> THEN Outcome("skip", NoResult, <<>>, NoEntry, <<>>)
        ELSE IF cls.kind = "raise" THEN Outcome("raise", cls, <<>>, NoEntry, <<>>)
        ELSE Outcome("entry", cls, <<>>,
                <<Transaction(new_metadata(basename(fname), 0, meta_kv),
                              date_of(row.transaction_time), flag_of(cls),
                              payee, narration, postings)>>, <<>>)

(***************************************************************************)
(* Statement records handed over by the format adapters                    *)
(***************************************************************************)
D1 == <<2024, 8, 1>>
D2 == <<2024, 8, 2>>
T1 == <<9, 30, 0>>

\* the rule file of the classifier handed to the importers
ImporterRuleFile ==
    << RuleEntry(<<F("narration", <<P("contains", <<"r">>)>>)>>, 1),
       RuleEntry(<<F("narration", <<P("contains", <<"q">>), P("fuzzy", <<"x">>)>>)>>, 2),
       RuleEntry(<<F("payee", <<P("starts_with", <<"h">>)>>)>>, 3) >>

FileNames == { <<"statements", "bill">> }

BocCreditRec(description, amount, currency, is_expense, card, posted) ==
    [transaction_date |-> D1, posted_date |-> posted, card_last_four |-> card,
     description |-> description, amount |-> amount, currency |-> currency,
     is_expense |-> is_expense]

BocCreditRecords ==
    { BocCreditRec(<<"H">>, 500, "CNY", TRUE, "1234", D1),
      BocCreditRec(<<"H">>, 120, "CNY", FALSE, "1234", D1),
      BocCreditRec(<<"H", " ", "[", "r", "]">>, 120, "CNY", FALSE, "1234", D1),
      BocCreditRec(<<"H", "[", "q", "]">>, 120, "CNY", FALSE, "1234", D1),
      BocCreditRec(<<"H">>, 20, "USD", FALSE, "1234", D1),
      BocCreditRec(<<"wechat", "H">>, 500, "CNY", TRUE, "1234", D1),
      BocCreditRec(<<"x", "[", "wechat", "]">>, 500, "CNY", TRUE, "1234", D1),
      BocCreditRec(<<"H">>, 500, "CNY", TRUE, "5678", D1),
      BocCreditRec(<<"H">>, 500, "CNY", TRUE, "1234", D2) }

BocRec(name, transaction_name, currency, is_expense, amount) ==
    [card_last_four |-> "1234", transaction_date |-> D1, transaction_time |-> T1,
     currency |-> currency, is_expense |-> is_expense, amount |-> amount,
     transaction_name |-> transaction_name, transaction_channel |-> <<"c">>,
     counterparty_account_name |-> name, counterparty_card_number |-> <<"6">>]

BocRecords ==
    { BocRec(<<"H">>, <<"t">>, "RMB", TRUE, 500),
      BocRec(<<"H">>, <<"t">>, "RMB", FALSE, 120),
      BocRec(<<"x">>, <<"t">>, "RMB", TRUE, 500),
      BocRec(<<"wechat">>, <<"t">>, "RMB", TRUE, 500),
      BocRec(<<"x">>, <<"alipay">>, "RMB", FALSE, 120),
      BocRec(<<"x">>, <<"r">>, "RMB", FALSE, 120),
      BocRec(<<"x">>, <<"q">>, "RMB", TRUE, 500),
      BocRec(<<"x">>, <<"t">>, "USD", TRUE, 500) }

CmbRec(transaction_type, transaction_note, is_expense, amount) ==
    [card_last_four |-> "6066", transaction_date |-> D1, transaction_time |-> T1,
     is_expense |-> is_expense, amount |-> amount,
     transaction_type |-> transaction_type, transaction_note |-> transaction_note]

CmbRecords ==
    { CmbRec(<<"H">>, <<"t">>, TRUE, 500),
      CmbRec(<<"H">>, <<>>, FALSE, 120),
      CmbRec(<<"x">>, <<"t">>, TRUE, 500),
      CmbRec(<<"x">>, <<"cft", "-", "s">>, TRUE, 500),
      CmbRec(<<"cft", "-", "s">>, <<"t">>, TRUE, 500),
      CmbRec(<<"x">>, <<"r">>, FALSE, 120),
      CmbRec(<<"x">>, <<"q">>, TRUE, 500) }

CmbCreditRec(transaction_type, transaction_date, description, amount) ==
    [transaction_type |-> transaction_type, transaction_date |-> transaction_date,
     posted_date |-> D2, transaction_description |-> description,
     amount |-> amount, card_last_four |-> "8888"]

CmbCreditRecords ==
    { CmbCreditRec("consume", D1, <<"H">>, 500),
      CmbCreditRec("refund", D1, <<"H">>, 120),
      CmbCreditRec("repay", <<>>, <<"x">>, 500),
      CmbCreditRec("consume", D1, <<"wechat", "-", "s">>, 500),
      CmbCreditRec("consume", D1, <<"x", "-", "alipay">>, 500),
      CmbCreditRec("consume", D1, <<"x", "-", "r", "-", "s">>, 500),
      CmbCreditRec("refund", D1, <<"x", "-", "q">>, 120) }

CiticCreditRec(description, positive_amount, amount) ==
    [transaction_date |-> D1, posted_date |-> D2,
     transaction_description |-> description, card_last_four |-> "4321",
     positive_amount |-> positive_amount, amount |-> amount]

CiticCreditRecords ==
    { CiticCreditRec(<<"H">>, TRUE, 500),
      CiticCreditRec(<<"H">>, FALSE, 120),
      CiticCreditRec(<<"x">>, TRUE, 500),
      CiticCreditRec(<<"cft", "fw-", "s">>, TRUE, 500),
      CiticCreditRec(<<"x", "fw-", "alipay">>, TRUE, 500),
      CiticCreditRec(<<"x", "fw-", "r">>, FALSE, 120),
      CiticCreditRec(<<"x", "fw-", "q">>, TRUE, 500) }

WechatRec(category, counterparty, product, income_expense, amount, payment_method, out_trade_no, note) ==
    [transaction_time |-> <<D1, T1>>, transaction_category |-> category,
     transaction_counterparty |-> counterparty, product |-> product,
     income_expense |-> income_expense, amount |-> amount,
     payment_method |-> payment_method, wechat_trade_no |-> <<"w", "1", " ">>,
     out_trade_no |-> out_trade_no, note |-> note]

WechatRecords ==
    { WechatRec(<<"shop">>, <<"H">>, <<"t">>, "expense", 500, <<"change">>, <<"o", "1">>, <<"/">>),
      WechatRec(<<"shop">>, <<"x">>, <<"t">>, "expense", 500, <<"bank">>, <<"/">>, <<>>),
      WechatRec(<<"redpacket">>, <<"x">>, <<"prefix", "t">>, "income", 120, <<"change">>, <<"/">>, <<"n">>),
      WechatRec(<<"withdraw">>, <<"x">>, <<"t">>, "/", 500, <<"bank">>, <<"/">>, <<"fee", "yen", "1", ".", "5">>),
      WechatRec(<<"withdraw">>, <<"x">>, <<"t">>, "/", 500, <<"change">>, <<"/">>, <<"fee">>),
      WechatRec(<<"withdraw">>, <<"H">>, <<"t">>, "/", 500, <<"change">>, <<"/">>, <<>>),
      WechatRec(<<"shop">>, <<"x">>, <<"r">>, "expense", 500, <<"change">>, <<"/">>, <<"/">>),
      WechatRec(<<"shop">>, <<"x">>, <<"q">>, "income", 120, <<"change">>, <<"/">>, <<"/">>),
      WechatRec(<<"redpacket">>, <<"H">>, <<"t">>, "income", 120, <<"/">>, <<"/">>, <<"/">>),
      WechatRec(<<"shop">>, <<"x">>, <<"t">>, "/", 500, <<"change">>, <<"/">>, <<"/">>),
      WechatRec(<<"withdraw">>, <<"x">>, <<"t">>, "/", 500, <<"change">>, <<"/">>, <<"fee", "yen", "x", "2">>),
      WechatRec(<<"withdraw">>, <<"x">>, <<"t">>, "/", 500, <<"change">>, <<"/">>, <<"n", "fee", "yen", "2", "0", "n">>),
      [WechatRec(<<"shop">>, <<"x">>, <<"t">>, "expense", 500, <<"change">>, <<>>, <<" ", "n">>)
          EXCEPT !.wechat_trade_no = <<"/">>] }

AlipayRec(counterparty, product, income_expense, amount, payment_method, merchant_order_number) ==
    [transaction_time |-> <<D1, T1>>, transaction_category |-> <<"c">>,
     transaction_counterparty |-> counterparty, product_description |-> product,
     income_expense |-> income_expense, amount |-> amount,
     payment_method |-> payment_method,
     transaction_order_number |-> <<"a", "1">>,
     merchant_order_number |-> merchant_order_number]

AlipayRecords ==
    { AlipayRec(<<"H">>, <<"t">>, "expense", 500, <<"balance">>, <<"m", "1">>),
      AlipayRec(<<"H">>, <<"t">>, "income", 120, <<"bank">>, <<"/">>),
      AlipayRec(<<"x">>, <<"t">>, "expense", 500, <<"balance">>, <<>>),
      AlipayRec(<<"yuebao">>, <<"t">>, "expense", 500, <<"balance">>, <<"/">>),
      AlipayRec(<<"x">>, <<"r">>, "expense", 500, <<"balance">>, <<"/">>),
      AlipayRec(<<"x">>, <<"q">>, "expense", 500, <<"balance">>, <<"/">>),
      AlipayRec(<<"x">>, <<"t">>, "other", 120, <<"balance">>, <<"/">>) }

(***************************************************************************)
(* extract as a state machine: one step per record of the statement.  The  *)
(* same records are fed to a second run of the same importer whose         *)
(* ignore_apps is the opposite value (entries_alt, cached_alt).            *)
(***************************************************************************)
Importers ==
    {"alipay", "boc", "boc_credit", "citic_credit", "cmb", "cmb_credit", "wechat"}

\* importers whose constructor takes ignore_apps
PolicyImporters == {"boc", "boc_credit", "citic_credit", "cmb", "cmb_credit"}

NoLast == [op |-> "none", cls |-> NoResult, key |-> <<>>, hit |-> FALSE]

Init ==
    /\ rule_file = ImporterRuleFile
    /\ rules = load_rules(ImporterRuleFile)
    /\ cstate = "loaded"
    /\ cin = <<>>
    /\ cresult = NoResult
    /\ importer \in Importers
    /\ use_classifier \in BOOLEAN
    /\ ignore_apps \in (IF importer \in PolicyImporters THEN BOOLEAN ELSE {FALSE})
    /\ file_name \in FileNames
    /\ consumed = <<>>
    /\ entries = <<>>
    /\ cached_entries = <<>>
    /\ entries_alt = <<>>
    /\ cached_alt = <<>>
    /\ last = NoLast
    /\ pc = "idle"
    /\ runs = IdleRuns

ClassifierVars == <<rule_file, rules, cstate, cin, cresult>>

ConfigVars == <<importer, use_classifier, ignore_apps, file_name>>

\* the first statements of extract: entries = [] (and cached_entries = {})
ExtractBegin ==
    /\ pc = "idle"
    /\ pc' = "loop"
    /\ entries' = <<>>
    /\ cached_entries' = <<>>
    /\ entries_alt' = <<>>
    /\ cached_alt' = <<>>
    /\ UNCHANGED <<consumed, last, runs>>
    /\ UNCHANGED ClassifierVars
    /\ UNCHANGED ConfigVars

\* the append keeping only the transactions whose classification matched
appended_reliable_only(ents, o) ==
    IF Reliable(o.cls) THEN ents \o o.entry ELSE ents

\* `if transaction: entries.append(transaction)`
appended(ents, o) == ents \o o.entry

\* the loop body of an extract without merge state, for the outcomes o of
\* the run and o_alt of the second run
PlainStep(record, o, o_alt) ==
    /\ entries' = appended(entries, o)
    /\ entries_alt' = appended(entries_alt, o_alt)
    /\ consumed' = Append(consumed, record)
    /\ last' = [op |-> o.op, cls |-> o.cls, key |-> <<>>, hit |-> FALSE]
    /\ UNCHANGED <<cached_entries, cached_alt, pc, runs>>
    /\ UNCHANGED ClassifierVars
    /\ UNCHANGED ConfigVars

MoreRecords == pc = "loop" /\ Len(consumed) < MaxRecords

\* boc_credit: the effect of one _parse_transaction call and of the append
\* in extract on the list `entries`; cached maps a key to the position in
\* `entries` of the transaction object it holds
\* merged_entries with a hit also re-deriving the counter posting from the
\* classification of the record that hit
merged_entries_reclassify(ents, cached, o) ==
    IF o.op = "hit"
    THEN [ents EXCEPT ![cached[o.key]].postings =
            <<@[1], Posting(IF Reliable(o.cls) THEN o.cls.account
                            ELSE default_expense_account, NoUnits)>>
              \o SubSeq(@, 3, Len(@)) \o o.posting]
    ELSE ents \o o.entry

merged_entries(ents, cached, o) ==
    IF o.op = "hit"
    THEN [ents EXCEPT ![cached[o.key]].postings = @ \o o.posting]
    ELSE ents \o o.entry

\* the key being cached before the classifier is called, so that a record
\* that fails still leaves its key behind
merged_cache_before_failure(ents, cached, o) ==
    IF o.op \in {"entry", "raise"}
    THEN (o.key :> (Len(ents) + 1)) @@ cached ELSE cached

\* cached_entries[key] = entry
merged_cache(ents, cached, o) ==
    IF o.op = "entry" THEN (o.key :> (Len(ents) + 1)) @@ cached ELSE cached

BocCreditStep ==
    /\ MoreRecords
    /\ importer = "boc_credit"
    /\ \E record \in BocCreditRecords :
        LET o == boc_credit_parse_transaction(ignore_apps, file_name, record,
                                              DOMAIN cached_entries)
            o_alt == boc_credit_parse_transaction(~ignore_apps, file_name, record,
                                                  DOMAIN cached_alt)
        IN  /\ entries' = merged_entries(entries, cached_entries, o)
            /\ cached_entries' = merged_cache(entries, cached_entries, o)
            /\ entries_alt' = merged_entries(entries_alt, cached_alt, o_alt)
            /\ cached_alt' = merged_cache(entries_alt, cached_alt, o_alt)
            /\ consumed' = Append(consumed, record)
            /\ last' = [op |-> o.op, cls |-> o.cls, key |-> o.key,
                        hit |-> o.key \in DOMAIN cached_entries]
    /\ UNCHANGED <<pc, runs>>
    /\ UNCHANGED ClassifierVars
    /\ UNCHANGED ConfigVars

BocStep ==
    /\ MoreRecords
    /\ importer = "boc"
    /\ \E record \in BocRecords :
        PlainStep(record,
            boc_parse_transaction(ignore_apps, file_name, record.card_last_four, record),
            boc_parse_transaction(~ignore_apps, file_name, record.card_last_four, record))

CmbStep ==
    /\ MoreRecords
    /\ importer = "cmb"
    /\ \E record \in CmbRecords :
        PlainStep(record,
            cmb_parse_transaction(ignore_apps, file_name, record),
            cmb_parse_transaction(~ignore_apps, file_name, record))

CmbCreditStep ==
    /\ MoreRecords
    /\ importer = "cmb_credit"
    /\ \E record \in CmbCreditRecords :
        PlainStep(record,
            cmb_credit_parse_transaction(ignore_apps, file_name, record),
            cmb_credit_parse_transaction(~ignore_apps, file_name, record))

CiticCreditStep ==
    /\ MoreRecords
    /\ importer = "citic_credit"
    /\ \E record \in CiticCreditRecords :
        PlainStep(record,
            citic_credit_parse_transaction(ignore_apps, file_name, record),
            citic_credit_parse_transaction(~ignore_apps, file_name, record))

WechatStep ==
    /\ MoreRecords
    /\ importer = "wechat"
    /\ \E record \in WechatRecords :
        PlainStep(record,
            wechat_parse_transaction(file_name, record),
            wechat_parse_transaction(file_name, record))

AlipayStep ==
    /\ MoreRecords
    /\ importer = "alipay"
    /\ \E row \in AlipayRecords :
        PlainStep(row,
            alipay_parse_transaction(file_name, row),
            alipay_parse_transaction(file_name, row))

\* self._parse_transaction of the importer imp
parse_transaction(imp, ig, fname, record, cached) ==
    CASE imp = "alipay" -> alipay_parse_transaction(fname, record)
      [] imp = "boc" -> boc_parse_transaction(ig, fname, record.card_last_four, record)
      [] imp = "boc_credit" -> boc_credit_parse_transaction(ig, fname, record, cached)
      [] imp = "citic_credit" -> citic_credit_parse_transaction(ig, fname, record)
      [] imp = "cmb" -> cmb_parse_transaction(ig, fname, record)
      [] imp = "cmb_credit" -> cmb_credit_parse_transaction(ig, fname, record)
      [] imp = "wechat" -> wechat_parse_transaction(fname, record)

\* the merge state after one iteration of the loop: only boc_credit's
\* extract has one
loop_cache(imp, ents, cached, o) ==
    IF imp = "boc_credit" THEN merged_cache(ents, cached, o) ELSE cached

\* the locals `entries` and `cached_entries` of extract after the loop has
\* gone through the first n of records
RECURSIVE extract_loop(_, _, _, _, _)
extract_loop(imp, ig, fname, records, n) ==
    IF n = 0 THEN [entries |-> <<>>, cached |-> <<>>]
    ELSE LET prev == extract_loop(imp, ig, fname, records, n - 1)
             o == parse_transaction(imp, ig, fname, records[n], DOMAIN prev.cached)
         IN  [entries |-> merged_entries(prev.entries, prev.cached, o),
              cached |-> loop_cache(imp, prev.entries, prev.cached, o)]

\* entries[::-1]
Reverse(seq) == [i \in 1..Len(seq) |-> seq[Len(seq) + 1 - i]]

\* every extract returning `entries` as it was built
returned_entries_as_built(imp, ents) == ents

\* the return statement of extract: cmb and wechat return entries[::-1]
returned_entries(imp, ents) ==
    IF imp \in {"cmb", "wechat"} THEN Reverse(ents) ELSE ents

ExtractReturn ==
    /\ pc = "loop"
    /\ pc' = "done"
    /\ entries' = returned_entries(importer, entries)
    /\ entries_alt' = returned_entries(importer, entries_alt)
    /\ UNCHANGED <<consumed, cached_entries, cached_alt, last, runs>>
    /\ UNCHANGED ClassifierVars
    /\ UNCHANGED ConfigVars

Next ==
    \/ ExtractBegin
    \/ AlipayStep
    \/ BocStep
    \/ BocCreditStep
    \/ CiticCreditStep
    \/ CmbStep
    \/ CmbCreditStep
    \/ WechatStep
    \/ ExtractReturn

Spec == Init /\ [][Next]_vars

(***************************************************************************)
(* The merge fold of boc_credit on its own, with the progress of the loop: *)
(* extract is called, and its for loop runs over the finitely many records *)
(* of the file, so the return after the loop is taken once it stays        *)
(* possible.                                                               *)
(***************************************************************************)
InitFold == Init /\ importer = "boc_credit"

NextFold == ExtractBegin \/ BocCreditStep \/ ExtractReturn

SpecFold ==
    /\ InitFold
    /\ [][NextFold]_vars
    /\ WF_vars(ExtractBegin)
    /\ WF_vars(ExtractReturn)

(***************************************************************************)
(* Two statement files processed by one importer object, their extract     *)
(* calls interleaved record by record (parallel workers); a file may be    *)
(* extracted again after its extract has returned.                         *)
(***************************************************************************)
MaxFileRecords == 2

RunFileNames == { <<"statements", "bill">>, <<"inbox", "other">> }

\* the records of the two statement files
FileRecords ==
    CASE importer = "alipay" ->
            { AlipayRec(<<"H">>, <<"t">>, "expense", 500, <<"balance">>, <<"m", "1">>),
              AlipayRec(<<"yuebao">>, <<"t">>, "expense", 500, <<"balance">>, <<"/">>),
              AlipayRec(<<"x">>, <<"q">>, "expense", 500, <<"balance">>, <<"/">>) }
      [] importer = "boc" ->
            { BocRec(<<"H">>, <<"t">>, "RMB", TRUE, 500),
              BocRec(<<"wechat">>, <<"t">>, "RMB", TRUE, 500),
              BocRec(<<"x">>, <<"t">>, "USD", TRUE, 500) }
      [] importer = "boc_credit" ->
            { BocCreditRec(<<"H">>, 500, "CNY", TRUE, "1234", D1),
              BocCreditRec(<<"H">>, 120, "CNY", FALSE, "1234", D1),
              BocCreditRec(<<"H", "[", "q", "]">>, 120, "CNY", FALSE, "1234", D1) }
      [] importer = "citic_credit" ->
            { CiticCreditRec(<<"H">>, TRUE, 500),
              CiticCreditRec(<<"x", "fw-", "alipay">>, TRUE, 500),
              CiticCreditRec(<<"x", "fw-", "q">>, TRUE, 500) }
      [] importer = "cmb" ->
            { CmbRec(<<"H">>, <<"t">>, TRUE, 500),
              CmbRec(<<"x">>, <<"cft", "-", "s">>, TRUE, 500),
              CmbRec(<<"x">>, <<"q">>, TRUE, 500) }
      [] importer = "cmb_credit" ->
            { CmbCreditRec("consume", D1, <<"H">>, 500),
              CmbCreditRec("repay", <<>>, <<"x">>, 500),
              CmbCreditRec("refund", D1, <<"x", "-", "q">>, 120) }
      [] importer = "wechat" ->
            { WechatRec(<<"shop">>, <<"H">>, <<"t">>, "expense", 500, <<"change">>, <<"o", "1">>, <<"/">>),
              WechatRec(<<"withdraw">>, <<"x">>, <<"t">>, "/", 500, <<"bank">>, <<"/">>, <<"fee", "yen", "1", ".", "5">>),
              WechatRec(<<"shop">>, <<"x">>, <<"q">>, "income", 120, <<"change">>, <<"/">>, <<"/">>) }

InitFiles ==
    /\ rule_file = ImporterRuleFile
    /\ rules = load_rules(ImporterRuleFile)
    /\ cstate = "loaded"
    /\ cin = <<>>
    /\ cresult = NoResult
    /\ importer \in Importers
    /\ use_classifier \in BOOLEAN
    /\ ignore_apps \in (IF importer \in PolicyImporters THEN BOOLEAN ELSE {FALSE})
    /\ file_name \in FileNames
    /\ consumed = <<>>
    /\ entries = <<>>
    /\ cached_entries = <<>>
    /\ entries_alt = <<>>
    /\ cached_alt = <<>>
    /\ last = NoLast
    /\ pc = "idle"
    /\ runs = IdleRuns

ExtractVars == <<consumed, entries, cached_entries, entries_alt, cached_alt, last, pc>>

\* one dict shared by the extract calls of the importer object
cache_of_shared(rs, f) ==
    LET g == CHOOSE g \in Files : g # f
    IN  rs[f].cached @@ rs[g].cached

\* the dict the name cached_entries is bound to in the extract call on
\* file f: the local created by that call
cache_of(rs, f) == rs[f].cached

\* extract(file) is called: entries = [], cached_entries = {}
FileBegin(f) ==
    /\ runs[f].pc \in {"idle", "done"}
    /\ \E name \in (IF f = 1 THEN {file_name} ELSE RunFileNames) :
        runs' = [runs EXCEPT ![f] =
                    [pc |-> "loop", fname |-> name, consumed |-> <<>>,
                     entries |-> <<>>, cached |-> <<>>]]
    /\ UNCHANGED ClassifierVars
    /\ UNCHANGED ConfigVars
    /\ UNCHANGED ExtractVars

\* one iteration of the loop of the extract call on file f
FileStep(f) ==
    /\ runs[f].pc = "loop"
    /\ Len(runs[f].consumed) < MaxFileRecords
    /\ \E record \in FileRecords :
        LET cached == cache_of(runs, f)
            o == parse_transaction(importer, ignore_apps, runs[f].fname, record,
                                   DOMAIN cached)
        IN  runs' = [runs EXCEPT
                        ![f].entries = merged_entries(@, cached, o),
                        ![f].cached = loop_cache(importer, runs[f].entries, cached, o),
                        ![f].consumed = Append(@, record)]
    /\ UNCHANGED ClassifierVars
    /\ UNCHANGED ConfigVars
    /\ UNCHANGED ExtractVars

\* the extract call on file f returns
FileReturn(f) ==
    /\ runs[f].pc = "loop"
    /\ runs' = [runs EXCEPT ![f].pc = "done",
                            ![f].entries = returned_entries(importer, @)]
    /\ UNCHANGED ClassifierVars
    /\ UNCHANGED ConfigVars
    /\ UNCHANGED ExtractVars

NextFiles == \E f \in Files : FileBegin(f) \/ FileStep(f) \/ FileReturn(f)

SpecFiles == InitFiles /\ [][NextFiles]_vars

(***************************************************************************)
(* Claims about the classifier                                             *)
(***************************************************************************)
\* every predicate name of every rule is one of the five predicate kinds
KnownPredicates(rs) ==
    \A i \in 1..Len(rs) : \A f \in 1..Len(rs[i].condition) :
        \A k \in 1..Len(rs[i].condition[f][2]) :
            rs[i].condition[f][2][k][1] \in PredicateNames

\* indexes of the rules whose condition is satisfied by the last input
SatisfiedRules ==
    { i \in 1..Len(rules) : AccountRule_matches(rules[i], cin[1], cin[2]) = "true" }

LowestOf(S) == CHOOSE i \in S : \A j \in S : i <= j

Classified == cstate = "loaded" /\ cresult.kind # "none"

\* C2: classify returns (True, account of rule i) exactly when rule i is the
\* lowest-indexed rule whose condition is satisfied, and (False, None)
\* exactly when no rule is satisfied.  Stated for every rule list whose
\* predicates are of the five kinds; for any other list it is stated of
\* every call that returns.
C2_FirstMatchWins ==
    Classified =>
        /\ KnownPredicates(rules) => cresult.kind = "return"
        /\ cresult.kind = "return" =>
            /\ cresult.matched <=> SatisfiedRules # {}
            /\ cresult.matched =>
                 /\ cresult.account = rules[LowestOf(SatisfiedRules)].prediction_account
                 /\ \A j \in 1..Len(rules) :
                      cresult.account = rules[j].prediction_account =>
                        \A h \in 1..(j - 1) : h \notin SatisfiedRules
            /\ ~cresult.matched => cresult.account = None

\* two rules are satisfied at once and the first one's account is returned
C2_Witness ==
    /\ Classified
    /\ Cardinality(SatisfiedRules) = 2
    /\ cresult = Returned(TRUE, rules[1].prediction_account)

\* some rule of the file names a predicate outside the five kinds
HasUnknownPredicate(config) ==
    \E i \in 1..Len(config) :
        /\ "condition" \in DOMAIN config[i]
        /\ \E f \in 1..Len(config[i].condition) :
             \E k \in 1..Len(config[i].condition[f][2]) :
                config[i].condition[f][2][k][1] \notin PredicateNames

\* C3: a rule set with an unknown predicate name never loads and then lets
\* classify complete with a normal (matched, account) result.
C3_UnknownPredicateFailsLoudly ==
    ~( /\ HasUnknownPredicate(rule_file)
       /\ cstate = "loaded"
       /\ cresult.kind = "return" )

\* the other-case form of a letter
SwapCase(c) ==
    CASE c = "a" -> "A" [] c = "A" -> "a"
      [] c = "b" -> "B" [] c = "B" -> "b"
      [] c = "h" -> "H" [] c = "H" -> "h"
      [] OTHER -> c

\* every re-casing of the text s
Recasings(s) ==
    { t \in [1..Len(s) -> {"a", "A", "b", "B", "h", "H"}] :
        \A i \in 1..Len(s) : t[i] \in {s[i], SwapCase(s[i])} }

\* C20: classify gives, for every re-casing of the payee and of the
\* narration of a call, the result it gave for the call itself, whatever
\* the rules and the predicate kinds (a raise included).
C20_CaseInsensitive ==
    Classified =>
        \A payee \in Recasings(cin[1]) : \A narration \in Recasings(cin[2]) :
            classify(rules, payee, narration) = cresult

\* a regular-expression rule matched a payee written with an upper-case
\* letter, and a rule with an upper-case target is in the list
C20_Witness ==
    /\ Classified
    /\ cin[1] = <<"A", "b">>
    /\ Len(rules) = 2
    /\ rules[1].condition = <<F("payee", <<P("matches", <<".", "b">>)>>)>>
    /\ rules[2].condition = <<F("payee", <<P("contains", <<"A">>)>>)>>
    /\ cresult = Returned(TRUE, rules[1].prediction_account)

\* one predicate <<name, target>> holds for the value, both lower-cased
Holds(pred, value) ==
    LET v == Lower(value)
        t == Lower(pred[2])
    IN  CASE pred[1] = "equals" -> v = t
          [] pred[1] = "contains" -> Contains(v, t)
          [] pred[1] = "starts_with" -> StartsWith(v, t)
          [] pred[1] = "ends_with" -> EndsWith(v, t)
          [] pred[1] = "matches" -> ReSearch(t, v)

\* AND across the predicates of one field's block
BlockHolds(block, value) == \A k \in 1..Len(block) : Holds(block[k], value)

\* the input value a condition field is about
InputOf(field, payee, narration) == IF field = "payee" THEN payee ELSE narration

\* OR across the fields: some payee or narration field with a value has a
\* block that holds
RuleSatisfied(rule, payee, narration) ==
    \E f \in 1..Len(rule.condition) :
        /\ rule.condition[f][1] \in {"payee", "narration"}
        /\ InputOf(rule.condition[f][1], payee, narration) # <<>>
        /\ BlockHolds(rule.condition[f][2],
                      InputOf(rule.condition[f][1], payee, narration))

\* C21: for rules of the five predicate kinds, a rule matches exactly when
\* one of its payee or narration fields, having a value, has a block all of
\* whose predicates hold; classify matches exactly when some rule does.
C21_OrAcrossFieldsAndAcrossPredicates ==
    (Classified /\ KnownPredicates(rules)) =>
        /\ \A i \in 1..Len(rules) :
              (AccountRule_matches(rules[i], cin[1], cin[2]) = "true")
                  <=> RuleSatisfied(rules[i], cin[1], cin[2])
        /\ cresult.kind = "return"
        /\ cresult.matched <=>
              \E i \in 1..Len(rules) : RuleSatisfied(rules[i], cin[1], cin[2])

\* the payee block of a two-field rule fails and its narration block holds;
\* a second rule has a two-predicate block of which only one predicate holds
C21_Witness ==
    /\ Classified
    /\ Len(rules) = 2
    /\ rules[1].condition =
          <<F("payee", <<P("contains", <<"a">>), P("ends_with", <<"b">>)>>)>>
    /\ rules[2].condition =
          <<F("payee", <<P("equals", <<"a">>)>>),
            F("narration", <<P("starts_with", <<"b">>)>>)>>
    /\ cin = << <<"b", "A">>, <<"b", "A">> >>
    /\ cresult = Returned(TRUE, rules[2].prediction_account)

\* every condition field of the rule has an empty input value
AllFieldsEmpty(rule, payee, narration) ==
    \A f \in 1..Len(rule.condition) :
        field_value(rule.condition[f][1], payee, narration) = <<>>

\* C22: a rule whose condition fields all have empty input values does not
\* match, whatever its predicates and targets; when every rule is such,
\* classify returns (False, None).
C22_EmptyValueSkipped ==
    Classified =>
        /\ \A i \in 1..Len(rules) :
              AllFieldsEmpty(rules[i], cin[1], cin[2]) =>
                  /\ AccountRule_matches(rules[i], cin[1], cin[2]) = "false"
                  /\ ~(cresult.kind = "return" /\ cresult.matched
                        /\ cresult.account = rules[i].prediction_account)
        /\ (\A i \in 1..Len(rules) : AllFieldsEmpty(rules[i], cin[1], cin[2]))
              => cresult = Returned(FALSE, None)

\* a payee rule with target '' that contains would accept was given an
\* empty payee and did not match
C22_Witness ==
    /\ Classified
    /\ Len(rules) = 1
    /\ rules[1].condition = <<F("payee", <<P("contains", <<>>)>>)>>
    /\ cin[1] = <<>>
    /\ cin[2] # <<>>
    /\ cresult = Returned(FALSE, None)

\* C23: classify never returns the account of a rule whose condition map is
\* empty, whatever payee and narration are, and goes on to the next rule.
C23_EmptyConditionNeverMatches ==
    Classified =>
        \A i \in 1..Len(rules) :
            rules[i].condition = <<>> =>
                /\ AccountRule_matches(rules[i], cin[1], cin[2]) = "false"
                /\ ~(cresult.kind = "return" /\ cresult.matched
                      /\ cresult.account = rules[i].prediction_account)
                /\ (i = 1 /\ Len(rules) = 2) =>
                      cresult = classify_from(rules, cin[1], cin[2], 2)

\* the first rule has no condition fields and the second rule matched
C23_Witness ==
    /\ Classified
    /\ Len(rules) = 2
    /\ rules[1].condition = <<>>
    /\ cresult = Returned(TRUE, rules[2].prediction_account)

\* C29: a rule (of the five predicate kinds) with a payee or narration field
\* whose block has no predicates matches every input with a value for that
\* field; a field of any other name never makes the rule match.
C29_EmptyBlockAndUnknownField ==
    Classified =>
        \A i \in 1..Len(rules) :
            /\ (/\ KnownPredicates(<<rules[i]>>)
                /\ \E f \in 1..Len(rules[i].condition) :
                    /\ rules[i].condition[f][1] \in {"payee", "narration"}
                    /\ rules[i].condition[f][2] = <<>>
                    /\ InputOf(rules[i].condition[f][1], cin[1], cin[2]) # <<>>)
                  => AccountRule_matches(rules[i], cin[1], cin[2]) = "true"
            /\ (\A f \in 1..Len(rules[i].condition) :
                    rules[i].condition[f][1] \notin {"payee", "narration"})
                  => AccountRule_matches(rules[i], cin[1], cin[2]) = "false"

\* a rule with a memo field did not match a call with payee and narration,
\* and the next rule, with an empty payee block, did
C29_Witness ==
    /\ Classified
    /\ Len(rules) = 2
    /\ rules[1].condition = <<F("memo", <<P("contains", <<>>)>>)>>
    /\ rules[2].condition =
          <<F("payee", <<P("equals", <<"a">>)>>), F("narration", <<>>)>>
    /\ cin[1] = <<"b", "A">>
    /\ cin[2] # <<>>
    /\ cresult = Returned(TRUE, rules[2].prediction_account)

(***************************************************************************)
(* Claims about the importers                                              *)
(***************************************************************************)
Currencies == {"CNY", "USD"}

ImplicitPostings(tx) ==
    { k \in 1..Len(tx.postings) : tx.postings[k].units = NoUnits }

\* sum of the explicit amounts of currency cur among the first n postings
RECURSIVE ExplicitSum(_, _, _)
ExplicitSum(tx, cur, n) ==
    IF n = 0 THEN 0
    ELSE LET u == tx.postings[n].units
         IN  ExplicitSum(tx, cur, n - 1)
               + (IF u # NoUnits /\ u[2] = cur THEN u[1] ELSE 0)

\* an implicit posting takes the residual of every currency; without one the
\* explicit amounts must cancel
Balanced(tx) ==
    /\ Cardinality(ImplicitPostings(tx)) <= 1
    /\ ImplicitPostings(tx) = {} =>
         \A cur \in Currencies : ExplicitSum(tx, cur, Len(tx.postings)) = 0

\* C1: every transaction held in `entries`, at every point of extract and
\* for every importer, has at most one implicit posting, and its explicit
\* amounts cancel per currency when it has none.
C1_BalanceInvariant ==
    \A i \in 1..Len(entries) :
        /\ Len(entries[i].postings) >= 2
        /\ Balanced(entries[i])

\* a transaction with a third posting (a merged leg or a withdrawal fee)
C1_Witness ==
    \E i \in 1..Len(entries) :
        /\ Len(entries[i].postings) = 3
        /\ Cardinality(ImplicitPostings(entries[i])) = 1

FallbackAccounts ==
    { default_expense_account, default_income_account, boc_credit_asset_account,
      cmb_credit_asset_account, citic_credit_asset_account, alipay_income_account }

\* C4: when the classifier raised for the record just processed, a
\* transaction was still emitted for it, flagged "!" and with the fallback
\* counter account.
C4_ClassifierFailureFallsBack ==
    (pc = "loop" /\ last.cls.kind = "raise") =>
        /\ last.op = "entry"
        /\ entries # <<>>
        /\ entries[Len(entries)].flag = "!"
        /\ entries[Len(entries)].postings[2].account \in FallbackAccounts

\* the record processed by the step just taken
StepRecord == consumed'[Len(consumed')]

BocCreditStepTaken ==
    importer = "boc_credit" /\ pc = "loop" /\ Len(consumed') = Len(consumed) + 1

\* the posting a later leg contributes
LegPosting(record) ==
    Posting(CardAccount(boc_credit_account, record.card_last_four),
            Amount(IF record.is_expense THEN 0 - record.amount ELSE record.amount,
                   record.currency))

\* C5: a boc_credit record whose MergeKey is already in the merge state adds
\* no output transaction and appends exactly one posting, signed by the
\* record's direction, to the transaction of that key.
C5_HitAppendsOnePosting ==
    [][ (BocCreditStepTaken /\ boc_credit_key(StepRecord) \in DOMAIN cached_entries) =>
          LET idx == cached_entries[boc_credit_key(StepRecord)]
          IN  /\ Len(entries') = Len(entries)
              /\ entries'[idx].postings =
                    Append(entries[idx].postings, LegPosting(StepRecord))
              /\ \A i \in 1..Len(entries) : i # idx => entries'[i] = entries[i]
      ]_vars

Envelope(tx) ==
    <<tx.date, tx.payee, tx.narration, tx.flag, tx.meta, tx.tags, tx.links,
      SubSeq(tx.postings, 1, 2)>>

\* C6: in boc_credit every step leaves date, payee, narration, flag, metadata
\* and the first two postings of every transaction already emitted as they
\* were, and at most appends one posting to it.
C6_FirstRecordFixesEnvelope ==
    [][ importer = "boc_credit" =>
          \A i \in 1..Len(entries) :
            /\ i <= Len(entries')
            /\ Envelope(entries'[i]) = Envelope(entries[i])
            /\ Len(entries'[i].postings) \in
                  {Len(entries[i].postings), Len(entries[i].postings) + 1}
            /\ SubSeq(entries'[i].postings, 1, Len(entries[i].postings))
                  = entries[i].postings
      ]_vars

\* a later leg was merged whose own classification names another account
\* than the counter account fixed by the first record
C6_Witness ==
    /\ importer = "boc_credit"
    /\ last.op = "hit"
    /\ Reliable(last.cls)
    /\ entries[cached_entries[last.key]].postings[2].account # last.cls.account
    /\ Len(entries[cached_entries[last.key]].postings) = 3

\* C7: [A, B] with one MergeKey yields one transaction with A's two postings
\* and B's posting; [A] alone yields one transaction with A's two postings.
C7_MergeTwoRecords ==
    (importer = "boc_credit" /\ pc = "done") =>
        /\ Len(consumed) = 1 =>
             /\ Len(entries) = 1
             /\ Len(entries[1].postings) = 2
             /\ entries[1].postings[1] = LegPosting(consumed[1])
        /\ (Len(consumed) = 2 /\ boc_credit_key(consumed[1]) = boc_credit_key(consumed[2])) =>
             /\ Len(entries) = 1
             /\ Len(entries[1].postings) = 3
             /\ entries[1].postings[1] = LegPosting(consumed[1])
             /\ entries[1].postings[3] = LegPosting(consumed[2])
             /\ Balanced(entries[1])

\* C8: every explicit posting of a boc_credit transaction carries the
\* currency of the first record under its key.
C8_FirstCurrencyWins ==
    importer = "boc_credit" =>
        \A i \in 1..Len(entries) : \A k \in 1..Len(entries[i].postings) :
            entries[i].postings[k].units # NoUnits =>
                entries[i].postings[k].units[2] = entries[i].postings[1].units[2]

AppsOf(imp) ==
    CASE imp = "boc" -> boc_apps
      [] imp = "boc_credit" -> boc_credit_apps
      [] imp = "citic_credit" -> citic_credit_apps
      [] imp = "cmb" -> cmb_apps
      [] imp = "cmb_credit" -> cmb_credit_apps
      [] OTHER -> {}

\* text holds one of the markers of importer imp
MarkerIn(imp, text) == \E app \in AppsOf(imp) : Contains(text, app)

HasDuplicate(tx) ==
    duplicate_meta \in DOMAIN tx.meta /\ tx.meta[duplicate_meta] = TRUE

\* C9 as stated: with the policy active, a marker in the payee or in the
\* narration puts the duplicate key on the transaction.
C9_MarkerInPayeeOrNarration ==
    (importer \in PolicyImporters /\ ignore_apps) =>
        \A i \in 1..Len(entries) :
            (\/ MarkerIn(importer, entries[i].payee)
             \/ MarkerIn(importer, entries[i].narration))
                => HasDuplicate(entries[i])

\* the one text the importer searches for markers
CheckedText(imp, tx) == IF imp = "cmb" THEN tx.narration ELSE tx.payee

\* C9 amended: with the policy active, a marker in the text the importer
\* checks (the narration for cmb, the payee for the other four) puts the
\* duplicate key, with value True, on the transaction.
C9_MarkerInCheckedText ==
    (importer \in PolicyImporters /\ ignore_apps) =>
        \A i \in 1..Len(entries) :
            MarkerIn(importer, CheckedText(importer, entries[i]))
                => HasDuplicate(entries[i])

C9_Witness ==
    /\ importer = "cmb"
    /\ ignore_apps
    /\ \E i \in 1..Len(entries) :
         /\ MarkerIn("cmb", entries[i].narration)
         /\ ~MarkerIn("cmb", entries[i].payee)
         /\ HasDuplicate(entries[i])

WithoutDuplicate(tx) ==
    [tx EXCEPT !.meta = [k \in (DOMAIN tx.meta) \ {duplicate_meta} |-> tx.meta[k]]]

WithoutDuplicates(ents) == [i \in 1..Len(ents) |-> WithoutDuplicate(ents[i])]

\* C10: the run with ignore_apps enabled and the run with it disabled, fed
\* the same records, hold the same transactions in the same order once the
\* duplicate key is taken out of the metadata.
C10_PolicyOnlyTouchesDuplicateKey ==
    WithoutDuplicates(entries) = WithoutDuplicates(entries_alt)

\* the two runs differ, and in more than one transaction's worth of output
C10_Witness ==
    /\ pc = "done"
    /\ Len(entries) >= 2
    /\ entries # entries_alt

\* the record handed to the last _parse_transaction call
LastRecord == consumed[Len(consumed)]

\* the last _parse_transaction call returned a transaction, now the last
\* element of `entries`
Emitted == pc = "loop" /\ last.op = "entry"

NewTransaction == entries[Len(entries)]

RuleAccounts == { rules[i].prediction_account : i \in 1..Len(rules) }

\* the default counter accounts: expense, income and asset defaults, and the
\* accounts a wechat withdrawal goes to
DefaultAccounts ==
    FallbackAccounts \cup {wechat_income_account, wechat_account}
        \cup { additional_accounts[m] : m \in DOMAIN additional_accounts }

\* C11: the counter posting of a newly synthesized transaction is on the
\* account the classifier returned when it matched, and on a default account,
\* never a rule's account, when it did not match or was not configured.
C11_CounterAccountFollowsClassifier ==
    Emitted =>
        /\ Reliable(last.cls) =>
              NewTransaction.postings[2].account = last.cls.account
        /\ ~Reliable(last.cls) =>
              /\ NewTransaction.postings[2].account \in DefaultAccounts
              /\ NewTransaction.postings[2].account \notin RuleAccounts

\* a wechat cash withdrawal, the inherently unambiguous subtype
IsWithdrawal(imp, record) ==
    /\ imp = "wechat"
    /\ record.income_expense # "income"
    /\ record.transaction_category = <<"withdraw">>

\* C12: a newly synthesized transaction is flagged "*" when the
\* classification matched or the record is a cash withdrawal, and "!"
\* otherwise; an unmatched ordinary record gets "!" and a default account.
C12_FlagFollowsClassification ==
    Emitted =>
        /\ (Reliable(last.cls) \/ IsWithdrawal(importer, LastRecord)) =>
              NewTransaction.flag = "*"
        /\ ~(Reliable(last.cls) \/ IsWithdrawal(importer, LastRecord)) =>
              /\ NewTransaction.flag = "!"
              /\ NewTransaction.postings[2].account \in DefaultAccounts

\* the step just taken handed one more record to _parse_transaction
StepTaken == pc = "loop" /\ Len(consumed') = Len(consumed) + 1

\* number of postings held by the transactions of ents
RECURSIVE PostingCount(_)
PostingCount(ents) ==
    IF ents = <<>> THEN 0 ELSE Len(Head(ents).postings) + PostingCount(Tail(ents))

\* the record-level error of boc: a currency other than the supported one
UnsupportedCurrency(imp, record) == imp = "boc" /\ record.currency # "RMB"

\* the step added a transaction or, under leg merge, a posting
OutputGrew ==
    \/ Len(entries') = Len(entries) + 1
    \/ /\ importer = "boc_credit"
       /\ Len(entries') = Len(entries)
       /\ PostingCount(entries') = PostingCount(entries) + 1

\* C13 as stated: every record without a record-level error whose
\* classification did not match (or that was not classified) adds a
\* transaction, or under leg merge a posting, to the output.
C13_UnmatchedNeverDropped ==
    [][ (/\ StepTaken
         /\ last'.cls.kind # "raise"
         /\ ~Reliable(last'.cls)
         /\ ~UnsupportedCurrency(importer, StepRecord)) => OutputGrew ]_vars

\* the alipay rows the importer filters out on purpose
FilteredCounterparty(imp, record) ==
    imp = "alipay" /\ record.transaction_counterparty = <<"yuebao">>

\* C13 amended: the same, for every record other than an alipay row whose
\* counterparty is the money-market fund, which the importer filters out.
C13_UnmatchedDroppedOnlyByFilter ==
    [][ (/\ StepTaken
         /\ last'.cls.kind # "raise"
         /\ ~Reliable(last'.cls)
         /\ ~UnsupportedCurrency(importer, StepRecord)
         /\ ~FilteredCounterparty(importer, StepRecord)) => OutputGrew ]_vars

\* the classifier ran on the last record, matched no rule, and the record's
\* transaction is in the output, flagged "!"
C13_Witness ==
    /\ Emitted
    /\ use_classifier
    /\ last.cls = Returned(FALSE, None)
    /\ NewTransaction.flag = "!"
    /\ NewTransaction.postings[2].account \in DefaultAccounts

\* processing the record fails: the classifier raises during synthesis, or
\* the currency is not supported
Fails(record) ==
    \/ UnsupportedCurrency(importer, record)
    \/ parse_transaction(importer, ignore_apps, file_name, record, {}).op = "raise"

\* the records consumed so far without the failing ones
Survivors == SelectSeq(consumed, LAMBDA r : ~Fails(r))

\* what extract holds after a loop over the surviving records alone
WithoutFailures ==
    extract_loop(importer, ignore_apps, file_name, Survivors, Len(Survivors)).entries

\* C14: at every point of extract the transactions held are those of a run
\* over the same records with the failing ones taken out, and so is the list
\* extract returns: a failing record adds nothing and changes nothing, and
\* the records after it are processed.
C14_FailureIsLocal ==
    /\ pc = "loop" => entries = WithoutFailures
    /\ pc = "done" => entries = returned_entries(importer, WithoutFailures)

\* three records were read, the middle one failed, and the output holds
\* the other two
C14_Witness ==
    /\ pc = "done"
    /\ Len(consumed) = 3
    /\ ~Fails(consumed[1])
    /\ Fails(consumed[2])
    /\ ~Fails(consumed[3])
    /\ PostingCount(entries) >= 3

\* the note holds the fee label, the yen sign and a digit in a row
FeeLabelled(note) ==
    \E i \in 1..(Len(note) - 2) :
        note[i] = "fee" /\ note[i + 1] = "yen" /\ note[i + 2] \in Digits

\* the number written after the fee label in the notes of the statement,
\* in hundredths
NumberAfterLabel(note) ==
    CASE note = <<"fee", "yen", "1", ".", "5">> -> 150
      [] note = <<"n", "fee", "yen", "2", "0", "n">> -> 2000

\* C15: the transaction of a wechat withdrawal has exactly the postings
\* [source with -amount, destination without amount, fee account with the
\* fee]; the fee is the number after the fee label and yen sign, and zero
\* when the note has no such number; a withdrawal is never lost to the fee
\* parsing.
C15_WithdrawalWithFee ==
    (pc = "loop" /\ last.op # "none" /\ IsWithdrawal(importer, LastRecord)) =>
        /\ last.cls.kind # "raise" => last.op = "entry"
        /\ last.op = "entry" =>
            LET account == IF LastRecord.payment_method = <<"bank">>
                           THEN <<"Assets:Bank">> ELSE wechat_account
                fee == IF FeeLabelled(LastRecord.note)
                       THEN NumberAfterLabel(LastRecord.note) ELSE 0
            IN  NewTransaction.postings =
                    << Posting(account, Amount(0 - LastRecord.amount, "CNY")),
                       Posting(account, NoUnits),
                       Posting(wechat_fee_account, Amount(fee, "CNY")) >>

\* a withdrawal whose note names a fee of 1.5 was synthesized
C15_Witness ==
    /\ Emitted
    /\ IsWithdrawal(importer, LastRecord)
    /\ Len(NewTransaction.postings) = 3
    /\ NewTransaction.postings[3] = Posting(wechat_fee_account, Amount(150, "CNY"))

\* a withdrawal whose note has the fee label but no number after it
C15_WitnessNoAmount ==
    /\ Emitted
    /\ IsWithdrawal(importer, LastRecord)
    /\ Contains(LastRecord.note, <<"fee">>)
    /\ NewTransaction.postings[3] = Posting(wechat_fee_account, Amount(0, "CNY"))

Placeholders == { <<>>, <<"/">> }

\* the raw value of an identifier shows as key in meta, stripped, exactly
\* when it is neither empty nor the placeholder
IdentifierKept(meta, key, raw) ==
    IF raw \in Placeholders THEN key \notin DOMAIN meta
    ELSE key \in DOMAIN meta /\ meta[key] = strip(raw)

TimeKept(meta, t) ==
    "time" \in DOMAIN meta /\ meta["time"] = <<t[1], ":", t[2], ":", t[3]>>

\* C18: the metadata of a new transaction holds the record's identifiers
\* that are present (wechat: note, wechat_trade_no, out_trade_no,
\* payment_method, time; alipay: alipay_trade_no, out_trade_no,
\* payment_method; boc and cmb: time), and holds no key for an identifier
\* whose raw value is empty or the placeholder.
C18_IdentifiersInMetadata ==
    Emitted =>
        LET meta == NewTransaction.meta
            r == LastRecord
        IN  /\ importer = "wechat" =>
                  /\ IdentifierKept(meta, "note", r.note)
                  /\ IdentifierKept(meta, "wechat_trade_no", r.wechat_trade_no)
                  /\ IdentifierKept(meta, "out_trade_no", r.out_trade_no)
                  /\ IdentifierKept(meta, "payment_method", r.payment_method)
                  /\ TimeKept(meta, r.transaction_time[2])
            /\ importer = "alipay" =>
                  /\ IdentifierKept(meta, "alipay_trade_no", r.transaction_order_number)
                  /\ IdentifierKept(meta, "out_trade_no", r.merchant_order_number)
                  /\ IdentifierKept(meta, "payment_method", r.payment_method)
            /\ importer \in {"boc", "cmb"} => TimeKept(meta, r.transaction_time)

\* the direction of a record: an outflow
IsExpense(imp, record) ==
    CASE imp = "alipay" -> record.income_expense = "expense"
      [] imp = "wechat" -> record.income_expense # "income"
      [] imp = "cmb_credit" -> record.transaction_type = "consume"
      [] imp = "citic_credit" -> record.positive_amount
      [] OTHER -> record.is_expense

\* the account of the statement the record is from
SourceAccount(imp, record) ==
    CASE imp = "alipay" ->
            IF record.payment_method = <<"bank">> THEN <<"Assets:Bank">> ELSE alipay_account
      [] imp = "wechat" ->
            IF record.payment_method = <<"bank">> THEN <<"Assets:Bank">> ELSE wechat_account
      [] imp = "boc" -> <<"Assets:BOC", ":", record.card_last_four>>
      [] imp = "boc_credit" -> <<"Liabilities:Credit:BOC", ":", record.card_last_four>>
      [] imp = "citic_credit" -> <<"Liabilities:Credit:Citic", ":", record.card_last_four>>
      [] imp = "cmb" -> <<"Assets:CMB:6066", ":", record.card_last_four>>
      [] imp = "cmb_credit" -> <<"Liabilities:Credit:CMB", ":", record.card_last_four>>

RecordCurrency(imp, record) == IF imp = "boc_credit" THEN record.currency ELSE "CNY"

\* two postings, source then counter, exactly one of them explicit
TwoPostingShape(tx, source) ==
    /\ Len(tx.postings) = 2
    /\ tx.postings[1].account = source
    /\ tx.postings[2].account # source
    /\ Cardinality(ImplicitPostings(tx)) = 1

OrdinaryEmitted == Emitted /\ ~IsWithdrawal(importer, LastRecord)

\* C19 as stated: an ordinary record gives two postings, source then
\* counter, exactly one explicit; an outflow with a matching rule gives flag
\* "*" and [source without amount, rule account with +amount].
C19_TwoPostings ==
    OrdinaryEmitted =>
        /\ TwoPostingShape(NewTransaction, SourceAccount(importer, LastRecord))
        /\ (IsExpense(importer, LastRecord) /\ Reliable(last.cls)) =>
              /\ NewTransaction.flag = "*"
              /\ NewTransaction.postings =
                    << Posting(SourceAccount(importer, LastRecord), NoUnits),
                       Posting(last.cls.account,
                               Amount(LastRecord.amount,
                                      RecordCurrency(importer, LastRecord))) >>

\* C19 amended: the same, except that boc_credit writes the outflow as
\* [source with -amount, rule account without amount].
C19_TwoPostingsBySource ==
    OrdinaryEmitted =>
        /\ TwoPostingShape(NewTransaction, SourceAccount(importer, LastRecord))
        /\ (IsExpense(importer, LastRecord) /\ Reliable(last.cls)) =>
              /\ NewTransaction.flag = "*"
              /\ NewTransaction.postings =
                    IF importer = "boc_credit"
                    THEN << Posting(SourceAccount(importer, LastRecord),
                                    Amount(0 - LastRecord.amount, LastRecord.currency)),
                            Posting(last.cls.account, NoUnits) >>
                    ELSE << Posting(SourceAccount(importer, LastRecord), NoUnits),
                            Posting(last.cls.account, Amount(LastRecord.amount, "CNY")) >>

\* a boc outflow of 500 whose payee matches the third rule
C19_Witness ==
    /\ OrdinaryEmitted
    /\ importer = "boc"
    /\ NewTransaction.flag = "*"
    /\ NewTransaction.postings =
          << Posting(<<"Assets:BOC", ":", "1234">>, NoUnits),
             Posting(RuleAccount(3), Amount(500, "CNY")) >>

\* what extract holds, or has returned, when it processes alone a file
\* named fname whose records are records
Alone(fname, records, position) ==
    LET loop == extract_loop(importer, ignore_apps, fname, records, Len(records))
    IN  IF position = "done" THEN returned_entries(importer, loop.entries)
        ELSE loop.entries

\* C16: however the steps of the two files' extract calls interleave, and
\* however often a file is extracted, each call holds (and returns) what
\* processing its file alone gives, and its merge state holds only keys of
\* its own records.
C16_FilesIndependent ==
    \A f \in Files :
        runs[f].pc # "idle" =>
            /\ runs[f].entries = Alone(runs[f].fname, runs[f].consumed, runs[f].pc)
            /\ \A key \in DOMAIN runs[f].cached :
                  \E i \in 1..Len(runs[f].consumed) :
                      importer = "boc_credit" /\ boc_credit_key(runs[f].consumed[i]) = key

\* both files hold a record of one MergeKey, and each output has its own
\* transaction for it
C16_Witness ==
    /\ importer = "boc_credit"
    /\ runs[1].pc = "done"
    /\ runs[2].pc = "loop"
    /\ Len(runs[1].entries) = 1
    /\ Len(runs[1].entries[1].postings) = 3
    /\ Len(runs[2].entries) = 1
    /\ Len(runs[2].entries[1].postings) = 2
    /\ DOMAIN runs[1].cached = DOMAIN runs[2].cached

C28_RepaymentAlwaysDuplicate ==
    (importer = "cmb_credit" /\ Emitted) =>
        LET tx == NewTransaction
            tx_alt == entries_alt[Len(entries_alt)]
            repay == LastRecord.transaction_type = "repay"
        IN  /\ (duplicate_meta \in DOMAIN tx.meta)
                  <=> (repay \/ (ignore_apps /\ MarkerIn("cmb_credit", tx.payee)))
            /\ (duplicate_meta \in DOMAIN tx_alt.meta)
                  <=> (repay \/ (~ignore_apps /\ MarkerIn("cmb_credit", tx_alt.payee)))
            /\ duplicate_meta \in DOMAIN tx.meta => tx.meta[duplicate_meta] = TRUE
            /\ duplicate_meta \in DOMAIN tx_alt.meta => tx_alt.meta[duplicate_meta] = TRUE

\* a repayment was synthesized with ignore_apps disabled and carries the
\* key; an earlier record with a marker in its payee does not
C28_Witness ==
    /\ importer = "cmb_credit"
    /\ Emitted
    /\ ~ignore_apps
    /\ Len(entries) = 2
    /\ LastRecord.transaction_type = "repay"
    /\ HasDuplicate(entries[2])
    /\ MarkerIn("cmb_credit", entries[1].payee)
    /\ ~HasDuplicate(entries[1])

C30_WitnessWechat ==
    /\ Emitted
    /\ importer = "wechat"
    /\ LastRecord.income_expense = "/"
    /\ LastRecord.transaction_category # <<"withdraw">>
    /\ NewTransaction.postings[1].units = NoUnits

\* positions in the file of the records that created a transaction: the
\* records that did not fail and were not filtered and, in boc_credit, were
\* the first of their MergeKey among those
CreatorIndexes ==
    { i \in 1..Len(consumed) :
        /\ parse_transaction(importer, ignore_apps, file_name, consumed[i], {}).op = "entry"
        /\ importer = "boc_credit" =>
              \A j \in 1..(i - 1) :
                  Fails(consumed[j])
                    \/ boc_credit_key(consumed[j]) # boc_credit_key(consumed[i]) }

CreatorSeq ==
    SelectSeq([i \in 1..Len(consumed) |-> i], LAMBDA i : i \in CreatorIndexes)

\* tx is the transaction synthesized from record (whatever was merged into
\* it later)
CreatedBy(tx, record) ==
    LET made == parse_transaction(importer, ignore_apps, file_name, record, {}).entry[1]
    IN  /\ Envelope(tx) = Envelope(made)
        /\ SubSeq(tx.postings, 1, Len(made.postings)) = made.postings

\* C27: the list extract returns holds one transaction per creating record,
\* in the order of these records for alipay, boc, boc_credit, citic_credit
\* and cmb_credit and in the reverse of it for cmb and wechat; records that
\* created nothing have no place in it.
C27_OutputOrder ==
    pc = "done" =>
        /\ Len(entries) = Len(CreatorSeq)
        /\ \A k \in 1..Len(CreatorSeq) :
              CreatedBy(entries[IF importer \in {"cmb", "wechat"}
                                THEN Len(CreatorSeq) + 1 - k ELSE k],
                        consumed[CreatorSeq[k]])

\* cmb read three records, the middle one failed, and the transaction of
\* the third record comes before that of the first
C27_Witness ==
    /\ pc = "done"
    /\ importer = "cmb"
    /\ Len(consumed) = 3
    /\ Fails(consumed[2])
    /\ Len(entries) = 2
    /\ entries[1] # entries[2]
    /\ CreatedBy(entries[1], consumed[3])
    /\ CreatedBy(entries[2], consumed[1])

\* the MergeKey of an emitted boc_credit transaction: posted date, card
\* suffix of its card account, payee
TxKey(tx) == <<tx.date, tx.postings[1].account[3], tx.payee>>

\* the keys of the records consumed so far whose synthesis did not fail
KeysOfSurvivors ==
    { boc_credit_key(consumed[i]) :
        i \in { j \in 1..Len(consumed) : ~Fails(consumed[j]) } }

\* C25: in boc_credit, after any prefix of the records, the emitted
\* transactions have pairwise distinct MergeKeys, the key set of the merge
\* state is the set of their keys, each key maps to the transaction of that
\* key in the output list, and the keys are those of the records that did
\* not fail: a failed record leaves no key behind.
C25_MergeStateMatchesOutput ==
    importer = "boc_credit" =>
        /\ \A i \in 1..Len(entries) : \A j \in 1..Len(entries) :
              i # j => TxKey(entries[i]) # TxKey(entries[j])
        /\ DOMAIN cached_entries = { TxKey(entries[i]) : i \in 1..Len(entries) }
        /\ \A key \in DOMAIN cached_entries :
              /\ cached_entries[key] \in 1..Len(entries)
              /\ TxKey(entries[cached_entries[key]]) = key
        /\ DOMAIN cached_entries = KeysOfSurvivors

\* the first record of a key failed and the second one established the
\* transaction of that key
C25_Witness ==
    /\ importer = "boc_credit"
    /\ pc = "loop"
    /\ Len(consumed) = 2
    /\ Fails(consumed[1])
    /\ boc_credit_key(consumed[1]) = boc_credit_key(consumed[2])
    /\ last.op = "entry"
    /\ Len(entries) = 1
    /\ CreatedBy(entries[1], consumed[2])

\* the records absorbed by the transaction tx, in arrival order
Absorbed(tx) ==
    SelectSeq(consumed, LAMBDA r : ~Fails(r) /\ boc_credit_key(r) = TxKey(tx))

\* C26: a boc_credit transaction that absorbed n records has n + 1
\* postings: the first record's explicit posting on the card account, then
\* the one implicit posting, on the counter account, then one explicit
\* posting on the card account per later record, in arrival order, each
\* signed by its record's direction.
C26_PostingsOfAbsorbedRecords ==
    importer = "boc_credit" =>
        \A i \in 1..Len(entries) :
            LET tx == entries[i]
                absorbed == Absorbed(tx)
                n == Len(absorbed)
            IN  /\ n >= 1
                /\ Len(tx.postings) = n + 1
                /\ ImplicitPostings(tx) = {2}
                /\ tx.postings[1] = LegPosting(absorbed[1])
                /\ tx.postings[2].account # tx.postings[1].account
                /\ \A k \in 2..n : tx.postings[k + 1] = LegPosting(absorbed[k])

\* a transaction absorbed an expense, an income and an expense
C26_Witness ==
    /\ importer = "boc_credit"
    /\ Len(entries) = 1
    /\ Len(entries[1].postings) = 4
    /\ entries[1].postings[1].units[1] < 0
    /\ entries[1].postings[3].units[1] > 0
    /\ entries[1].postings[4].units[1] < 0

\* the three things one iteration of the fold can do with the record r
FoldMiss(r) ==
    /\ ~Fails(r)
    /\ boc_credit_key(r) \notin DOMAIN cached_entries
    /\ Len(entries') = Len(entries) + 1
    /\ SubSeq(entries', 1, Len(entries)) = entries
    /\ CreatedBy(entries'[Len(entries')], r)
    /\ cached_entries' = (boc_credit_key(r) :> Len(entries')) @@ cached_entries

FoldHit(r) ==
    /\ ~Fails(r)
    /\ boc_credit_key(r) \in DOMAIN cached_entries
    /\ cached_entries' = cached_entries
    /\ entries' = [entries EXCEPT ![cached_entries[boc_credit_key(r)]].postings =
                        Append(@, LegPosting(r))]

FoldSkip(r) ==
    /\ Fails(r)
    /\ cached_entries' = cached_entries
    /\ entries' = entries

\* C24: every iteration of the boc_credit fold consumes one record, at the
\* end of the records consumed so far, and is a Miss (synthesize and
\* insert), a Hit (append a posting) or a skip, decided by the merge state
\* at that moment; that merge state is the one a fold over all earlier
\* records leaves; and every run reaches its end.
C24_MergeFold ==
    /\ [][ BocCreditStepTaken =>
              /\ SubSeq(consumed', 1, Len(consumed)) = consumed
              /\ FoldMiss(StepRecord) \/ FoldHit(StepRecord) \/ FoldSkip(StepRecord)
         ]_vars
    /\ [](pc # "idle" =>
            cached_entries =
                extract_loop(importer, ignore_apps, file_name, consumed,
                             Len(consumed)).cached)
    /\ <>(pc = "done")

\* a run that ended after a Miss, a skip and a Hit
C24_Witness ==
    /\ importer = "boc_credit"
    /\ pc = "done"
    /\ Len(consumed) = 3
    /\ ~Fails(consumed[1])
    /\ Fails(consumed[2])
    /\ ~Fails(consumed[3])
    /\ Len(entries) = 1
    /\ Len(entries[1].postings) = 3

====
